---- MODULE Spec2Model ----
(***************************************************************************)
(* JobURLChecker (internship_application_tracker/cleanup_excel.py):        *)
(* check_url, _single_url_task and process_urls as a state machine.        *)
(*                                                                         *)
(* A unit of work (one URL) advances from one blocking point to the next:  *)
(* the pacing sleep, the HEAD request, the GET request, the 429 sleep.     *)
(* The main thread submits every URL to the pool, collects the futures in  *)
(* completion order and returns the result list.                           *)
(***************************************************************************)
EXTENDS Integers, Sequences, FiniteSets, TLC

VARIABLES
    urls,             \* process_urls argument
    retries,          \* self.retries
    max_workers,      \* self.max_workers
    delay,            \* self.delay
    verify_content,   \* self.verify_content
    mainpc,           \* position of the main thread in process_urls
    submitted,        \* number of executor.submit calls made so far
    results,          \* results list: <<>> is None, <<r>> a stored record
    completed_count,  \* completed_count
    yielded,          \* indices of the futures as_completed has yielded, in order
    nwrite,           \* history: assignments made to each slot of results
    csv,              \* the output file of run: <<>> until written, <<lines>> after
    pc,               \* position of each unit of work
    attempts,         \* _single_url_task local
    last_result,      \* _single_url_task local: <<>> is None
    result,           \* check_url local `result`: <<>> outside check_url
    response,         \* check_url local `response`: <<>> when not held
    future,           \* outcome of each future: <<>> while not finished
    calls,            \* history: number of check_url calls per URL
    nhead,            \* history: HEAD requests issued per URL
    nget,             \* history: GET requests issued per URL
    ndelay,           \* history: pacing sleeps per URL
    slept,            \* history: seconds slept on 429 per URL
    seen,             \* history: how HEAD and GET ended in the current attempt
    lastCheck,        \* history: what the last check_url call returned
    replies,          \* history: what HEAD and GET brought in the current attempt
    now,              \* the clock behind time.time(), in seconds
    start_time,       \* process_urls local
    last_print_time,  \* process_urls local
    progress          \* history: per completion, its time and whether it was logged

cfgvars  == <<urls, retries, max_workers, delay, verify_content>>
mainvars == <<mainpc, submitted, results, completed_count, yielded, nwrite, csv>>
taskvars == <<pc, attempts, last_result, result, response, future>>
histvars == <<calls, nhead, nget, ndelay, slept, seen, lastCheck, replies>>
clockvars == <<now, start_time, last_print_time, progress>>
vars     == <<cfgvars, mainvars, taskvars, histvars, clockvars>>

-----------------------------------------------------------------------------
(* Bounds of the model.                                                    *)

MaxUrls == 3
MaxWorkers == 2
MaxRetries == 2
MaxBatchRetries == 1
MaxClockUrls == 3
MaxRunUrls == 2
MaxTime == 11

-----------------------------------------------------------------------------
(* Values.                                                                 *)

\* Python's None in the status field; an HTTP status code is never negative.
None == 0 - 1

DefaultWait == 60

print_interval == 5

Whitespace == {" ", "\t", "\n"}

\* A header value is the sequence of its code points: "2" is <<50>>.
\* The code points of the digits int() accepts
AsciiDigits == 48..57

\* Latin-1 code points str.isdigit() accepts and int() rejects: U+00B2,
\* U+00B3, U+00B9 (superscript two, three, one)
OtherDigits == {178, 179, 185}

Record(u, s, e, r) == [url |-> u, status |-> s, expired |-> e, reason |-> r]

-----------------------------------------------------------------------------
(* Sequence and string helpers.                                            *)

Range(f) == {f[k] : k \in DOMAIN f}

CharAt(s, k) == SubSeq(s, k, k)

\* `sub in s`
Contains(s, sub) ==
    \E k \in 1..(Len(s) - Len(sub) + 1) : SubSeq(s, k, k + Len(sub) - 1) = sub

RECURSIVE LStrip(_)
LStrip(s) ==
    IF s # "" /\ CharAt(s, 1) \in Whitespace
    THEN LStrip(SubSeq(s, 2, Len(s)))
    ELSE s

RECURSIVE RStrip(_)
RStrip(s) ==
    IF s # "" /\ CharAt(s, Len(s)) \in Whitespace
    THEN RStrip(SubSeq(s, 1, Len(s) - 1))
    ELSE s

\* a URL used as it was given
Unstripped(s) == s

\* str.strip()
Strip(s) == RStrip(LStrip(s))

\* the letters str.lower() changes (ASCII)
LowerMap ==
    ("A" :> "a") @@ ("B" :> "b") @@ ("C" :> "c") @@ ("D" :> "d") @@ ("E" :> "e") @@
    ("F" :> "f") @@ ("G" :> "g") @@ ("H" :> "h") @@ ("I" :> "i") @@ ("J" :> "j") @@
    ("K" :> "k") @@ ("L" :> "l") @@ ("M" :> "m") @@ ("N" :> "n") @@ ("O" :> "o") @@
    ("P" :> "p") @@ ("Q" :> "q") @@ ("R" :> "r") @@ ("S" :> "s") @@ ("T" :> "t") @@
    ("U" :> "u") @@ ("V" :> "v") @@ ("W" :> "w") @@ ("X" :> "x") @@ ("Y" :> "y") @@
    ("Z" :> "z")

LowerChar(c) == IF c \in DOMAIN LowerMap THEN LowerMap[c] ELSE c

\* str.lower()
RECURSIVE Lower(_)
Lower(s) ==
    IF s = "" THEN "" ELSE LowerChar(CharAt(s, 1)) \o Lower(SubSeq(s, 2, Len(s)))

\* str.isdigit()
IsDigit(s) == s # <<>> /\ \A k \in 1..Len(s) : s[k] \in AsciiDigits \cup OtherDigits

\* int(s) succeeds (on a string that passed isdigit)
IntParses(s) == \A k \in 1..Len(s) : s[k] \in AsciiDigits

DigitVal(c) == c - 48

\* int(s) for a string of decimal digits
RECURSIVE ParseInt(_)
ParseInt(s) ==
    IF s = <<>> THEN 0
    ELSE 10 * ParseInt(SubSeq(s, 1, Len(s) - 1)) + DigitVal(s[Len(s)])

-----------------------------------------------------------------------------
(* What the network can answer to one request.                             *)

\* requests.exceptions.RequestException and the subclasses the code meets
RequestExceptions == {"ConnectTimeout", "ReadTimeout", "ConnectionError"}

\* a reply: response.status_code, headers.get("Retry-After") (<<>> is None,
\* <<v>> the header value v),
\* response.text, the <meta> tags of the page, and the redirect target
\* (<<>>: response.url is the requested URL)
Reply(status, retry_after, text, metas, redirect) ==
    [kind |-> "response", status |-> status, retry_after |-> retry_after,
     text |-> text, metas |-> metas, redirect |-> redirect,
     cls |-> "", exc |-> ""]

\* the request raises an exception of class cls whose str() is exc
Raises(cls, exc) ==
    [kind |-> "raise", status |-> None, retry_after |-> <<>>,
     text |-> "", metas |-> <<>>, redirect |-> <<>>,
     cls |-> cls, exc |-> exc]

\* response.url
FinalUrl(url, resp) == IF resp.redirect = <<>> THEN url ELSE resp.redirect[1]

-----------------------------------------------------------------------------
(* check_url, between its blocking points.                                 *)

EmptyUrlRecord == Record("", None, TRUE, "Empty or invalid URL")

InitialResult(url) == Record(url, None, FALSE, "")

\* `except requests.exceptions.RequestException` around the HEAD request
HeadCatches(cls) == cls \in RequestExceptions

\* the GET request guarded by the ReadTimeout clause alone
GetCatchesTimeout(cls) == cls = "ReadTimeout"

\* the two except clauses around the GET request
GetCatches(cls) == cls = "ReadTimeout" \/ cls \in RequestExceptions

\* the HEAD try block with the error range ending at 500
HeadResultClientErrors(r, head) ==
    LET r1 == [r EXCEPT !.status = head.status] IN
    IF head.status = 404
    THEN [result |-> [r1 EXCEPT !.expired = TRUE, !.reason = "404 Not Found (HEAD)"],
          returns |-> TRUE]
    ELSE IF 400 <= head.status /\ head.status < 500
    THEN [result |-> [r1 EXCEPT !.expired = TRUE,
                                !.reason = "Error " \o ToString(head.status) \o " (HEAD)"],
          returns |-> TRUE]
    ELSE [result |-> r1, returns |-> FALSE]

\* the HEAD try block without the 404 branch: a 404 goes on to the GET request
HeadResultFallsThrough(r, head) ==
    LET r1 == [r EXCEPT !.status = head.status] IN
    IF 400 <= head.status /\ head.status < 600 /\ head.status # 404
    THEN [result |-> [r1 EXCEPT !.expired = TRUE,
                                !.reason = "Error " \o ToString(head.status) \o " (HEAD)"],
          returns |-> TRUE]
    ELSE [result |-> r1, returns |-> FALSE]

\* the HEAD try block without `result["status"] = head_response.status_code`
HeadResultNoStatus(r, head) ==
    IF head.status = 404
    THEN [result |-> [r EXCEPT !.expired = TRUE, !.reason = "404 Not Found (HEAD)"],
          returns |-> TRUE]
    ELSE IF 400 <= head.status /\ head.status < 600
    THEN [result |-> [r EXCEPT !.expired = TRUE,
                               !.reason = "Error " \o ToString(head.status) \o " (HEAD)"],
          returns |-> TRUE]
    ELSE [result |-> r, returns |-> FALSE]

\* the body of the HEAD try block: the result, and whether check_url returns it
HeadResult(r, head) ==
    LET r1 == [r EXCEPT !.status = head.status] IN
    IF head.status = 404
    THEN [result |-> [r1 EXCEPT !.expired = TRUE, !.reason = "404 Not Found (HEAD)"],
          returns |-> TRUE]
    ELSE IF 400 <= head.status /\ head.status < 600
    THEN [result |-> [r1 EXCEPT !.expired = TRUE,
                                !.reason = "Error " \o ToString(head.status) \o " (HEAD)"],
          returns |-> TRUE]
    ELSE [result |-> r1, returns |-> FALSE]

\* the GET except clauses forgetting the status the HEAD request obtained
GetFailureResets(r, get) ==
    IF get.cls = "ReadTimeout"
    THEN [r EXCEPT !.status = None, !.expired = FALSE,
                   !.reason = "Read Timeout (uncertain status)"]
    ELSE [r EXCEPT !.status = None, !.expired = TRUE,
                   !.reason = "Request Error: " \o get.exc]

\* the GET except clauses, every timeout counted as uncertain
GetFailureAnyTimeout(r, get) ==
    IF get.cls \in {"ReadTimeout", "ConnectTimeout"}
    THEN [r EXCEPT !.expired = FALSE, !.reason = "Read Timeout (uncertain status)"]
    ELSE [r EXCEPT !.expired = TRUE, !.reason = "Request Error: " \o get.exc]

\* the GET except clauses, the timeout clause leaving the reason unset
GetFailureSilent(r, get) ==
    IF get.cls = "ReadTimeout"
    THEN [r EXCEPT !.expired = FALSE]
    ELSE [r EXCEPT !.expired = TRUE, !.reason = "Request Error: " \o get.exc]

\* the GET except clauses
GetFailure(r, get) ==
    IF get.cls = "ReadTimeout"
    THEN [r EXCEPT !.expired = FALSE, !.reason = "Read Timeout (uncertain status)"]
    ELSE [r EXCEPT !.expired = TRUE, !.reason = "Request Error: " \o get.exc]

\* retry_after and retry_after.isdigit()
RetryAfterUsable(resp) ==
    /\ resp.retry_after # <<>>
    /\ resp.retry_after[1] # <<>>
    /\ IsDigit(resp.retry_after[1])

\* int(retry_after) raises ValueError
WaitTimeRaises(resp) == RetryAfterUsable(resp) /\ ~IntParses(resp.retry_after[1])

\* the wait that ignores the header
wait_timeDefault(resp) == DefaultWait

wait_time(resp) ==
    IF RetryAfterUsable(resp) THEN ParseInt(resp.retry_after[1]) ELSE DefaultWait

keyword_list ==
    << "job not found",
       "position has been filled",
       "no longer accepting applications",
       "job expired",
       "sorry, this job has expired",
       "the page you are looking for doesn't exist." >>

\* the keyword scan reporting the last keyword of the list that matches
KeywordCheckLast(r, resp) ==
    LET page_text_lower == Lower(resp.text)
        hits == {k \in 1..Len(keyword_list) : Contains(page_text_lower, keyword_list[k])}
    IN  IF hits # {}
        THEN LET last == CHOOSE k \in hits : \A j \in hits : k >= j
             IN  [r EXCEPT !.expired = TRUE,
                           !.reason = "Page content indicates expired job: "
                                         \o keyword_list[last]]
        ELSE r

KeywordCheck(r, resp) ==
    LET page_text_lower == Lower(resp.text)
        hits == {k \in 1..Len(keyword_list) : Contains(page_text_lower, keyword_list[k])}
    IN  IF hits # {}
        THEN LET first == CHOOSE k \in hits : \A j \in hits : k <= j
             IN  [r EXCEPT !.expired = TRUE,
                           !.reason = "Page content indicates expired job: "
                                         \o keyword_list[first]]
        ELSE r

\* the search for a meta tag by its property attribute alone
MetaMatchesProperty(resp) ==
    {k \in 1..Len(resp.metas) : resp.metas[k].property = "og:description"}

\* soup.find("meta", {"name": "description", "property": "og:description"}):
\* the first meta tag carrying both attributes (an absent attribute is "")
MetaMatches(resp) ==
    {k \in 1..Len(resp.metas) :
        /\ resp.metas[k].name = "description"
        /\ resp.metas[k].property = "og:description"}

\* the workday check only for URLs spelling the provider in lower case
WorkdayCheckCaseSensitive(r, resp) ==
    IF Contains(r.url, "workday")
    THEN LET found == MetaMatches(resp)
             missing ==
                 \/ found = {}
                 \/ LET k == CHOOSE k \in found : \A j \in found : k <= j
                    IN  Strip(resp.metas[k].content) = ""
         IN  IF missing
             THEN [r EXCEPT !.expired = TRUE,
                            !.reason = "Workday page missing meta og:description content"]
             ELSE r
    ELSE r

WorkdayCheck(r, resp) ==
    IF Contains(Lower(r.url), "workday")
    THEN LET found == MetaMatches(resp)
             missing ==
                 \/ found = {}
                 \/ LET k == CHOOSE k \in found : \A j \in found : k <= j
                    IN  Strip(resp.metas[k].content) = ""
         IN  IF missing
             THEN [r EXCEPT !.expired = TRUE,
                            !.reason = "Workday page missing meta og:description content"]
             ELSE r
    ELSE r

\* the greenhouse check without its redirect branch
GreenhouseCheckErrorOnly(r, resp) ==
    IF Contains(Lower(r.url), "greenhouse") /\ Contains(FinalUrl(r.url, resp), "?error=true")
    THEN [r EXCEPT !.expired = TRUE,
                   !.reason = "Greenhouse page indicates expired job"]
    ELSE r

GreenhouseCheck(r, resp) ==
    IF Contains(Lower(r.url), "greenhouse")
    THEN IF Contains(FinalUrl(r.url, resp), "?error=true")
         THEN [r EXCEPT !.expired = TRUE,
                        !.reason = "Greenhouse page indicates expired job"]
         ELSE IF r.url # FinalUrl(r.url, resp)
         THEN [r EXCEPT !.expired = TRUE, !.reason = "Greenhouse page redirected"]
         ELSE r
    ELSE r

JobviteCheck(r, resp) ==
    IF Contains(Lower(r.url), "jobvite") /\ Contains(FinalUrl(r.url, resp), "?error=404")
    THEN [r EXCEPT !.expired = TRUE, !.reason = "Jobvite page indicates expired job"]
    ELSE r

\* the provider checks applied only when no keyword matched
ClassifyKeywordFirst(r, resp, verify) ==
    IF resp.status = 404
    THEN [r EXCEPT !.expired = TRUE, !.reason = "404 Not Found (GET)"]
    ELSE IF 400 <= resp.status /\ resp.status < 600 /\ resp.status # 429
    THEN [r EXCEPT !.expired = TRUE,
                   !.reason = "HTTP " \o ToString(resp.status) \o " (GET)"]
    ELSE IF verify
    THEN IF KeywordCheck(r, resp) # r
         THEN KeywordCheck(r, resp)
         ELSE JobviteCheck(GreenhouseCheck(WorkdayCheck(r, resp), resp), resp)
    ELSE r

\* the content checks run whether or not verification is enabled
ClassifyAlwaysVerifies(r, resp, verify) ==
    IF resp.status = 404
    THEN [r EXCEPT !.expired = TRUE, !.reason = "404 Not Found (GET)"]
    ELSE IF 400 <= resp.status /\ resp.status < 600 /\ resp.status # 429
    THEN [r EXCEPT !.expired = TRUE,
                   !.reason = "HTTP " \o ToString(resp.status) \o " (GET)"]
    ELSE JobviteCheck(GreenhouseCheck(WorkdayCheck(KeywordCheck(r, resp), resp), resp), resp)

\* the status and content checks on the GET response; r.status is already set
Classify(r, resp, verify) ==
    IF resp.status = 404
    THEN [r EXCEPT !.expired = TRUE, !.reason = "404 Not Found (GET)"]
    ELSE IF 400 <= resp.status /\ resp.status < 600 /\ resp.status # 429
    THEN [r EXCEPT !.expired = TRUE,
                   !.reason = "HTTP " \o ToString(resp.status) \o " (GET)"]
    ELSE IF verify
    THEN JobviteCheck(GreenhouseCheck(WorkdayCheck(KeywordCheck(r, resp), resp), resp), resp)
    ELSE r

-----------------------------------------------------------------------------
(* The state after construction and the call of process_urls.              *)

Indices == 1..Len(urls)

NothingSeen == [head |-> "", get |-> ""]

NoReplies == [head |-> <<>>, get |-> <<>>]

InitWith(UrlLists, RetriesSet, WorkersSet, DelaySet, VerifySet) ==
    /\ urls \in UrlLists
    /\ retries \in RetriesSet
    /\ max_workers \in WorkersSet
    /\ delay \in DelaySet
    /\ verify_content \in VerifySet
    /\ mainpc = "submit"
    /\ submitted = 0
    /\ results = [i \in 1..Len(urls) |-> <<>>]
    /\ completed_count = 0
    /\ yielded = <<>>
    /\ nwrite = [i \in 1..Len(urls) |-> 0]
    /\ csv = <<>>
    /\ pc = [i \in 1..Len(urls) |-> "new"]
    /\ attempts = [i \in 1..Len(urls) |-> 0]
    /\ last_result = [i \in 1..Len(urls) |-> <<>>]
    /\ result = [i \in 1..Len(urls) |-> <<>>]
    /\ response = [i \in 1..Len(urls) |-> <<>>]
    /\ future = [i \in 1..Len(urls) |-> <<>>]
    /\ calls = [i \in 1..Len(urls) |-> 0]
    /\ nhead = [i \in 1..Len(urls) |-> 0]
    /\ nget = [i \in 1..Len(urls) |-> 0]
    /\ ndelay = [i \in 1..Len(urls) |-> 0]
    /\ slept = [i \in 1..Len(urls) |-> 0]
    /\ seen = [i \in 1..Len(urls) |-> NothingSeen]
    /\ lastCheck = [i \in 1..Len(urls) |-> <<>>]
    /\ replies = [i \in 1..Len(urls) |-> NoReplies]
    /\ now = 0
    /\ start_time = now
    /\ last_print_time = start_time
    /\ progress = <<>>

-----------------------------------------------------------------------------
(* _single_url_task.                                                       *)

\* positions at which a pool thread is executing _single_url_task
RunningPcs == {"loop", "delay", "check", "head", "get", "wait429"}

Running == {i \in Indices : pc[i] \in RunningPcs}

\* the future finished with a return value / with an exception
Returned(v) == [ok |-> TRUE, value |-> v, cls |-> "", exc |-> ""]
Raised(cls, exc) == [ok |-> FALSE, value |-> InitialResult(""), cls |-> cls, exc |-> exc]

\* the loop test with the bound one too small
ShouldAttemptStrict(a, r) == a < r

\* `while attempts <= self.retries`
ShouldAttempt(a, r) == a <= r

\* the return test accepting any record
IsTerminalAny(r) == TRUE

\* the return test also asking for a live page
IsTerminalLive(r) == r.status # None /\ ~r.expired

\* `if result.get("status") is not None: return result`
IsTerminal(r) == r.status # None

\* the exhausted loop returning the synthesized record, whatever was last seen
ExhaustedSynthesized(url, last) == Record(url, None, TRUE, "Max retries exceeded")

\* `return last_result or {...}`
Exhausted(url, last) ==
    IF last # <<>> THEN last[1] ELSE Record(url, None, TRUE, "Max retries exceeded")

\* the task leaves check_url with record r: lines 152-155
AfterCheck(i, r) ==
    /\ lastCheck' = [lastCheck EXCEPT ![i] = <<r>>]
    /\ result' = [result EXCEPT ![i] = <<>>]
    /\ response' = [response EXCEPT ![i] = <<>>]
    /\ IF IsTerminal(r)
       THEN /\ pc' = [pc EXCEPT ![i] = "done"]
            /\ future' = [future EXCEPT ![i] = <<Returned(r)>>]
            /\ UNCHANGED <<attempts, last_result>>
       ELSE /\ pc' = [pc EXCEPT ![i] = "loop"]
            /\ last_result' = [last_result EXCEPT ![i] = <<r>>]
            /\ attempts' = [attempts EXCEPT ![i] = attempts[i] + 1]
            /\ UNCHANGED future

\* an exception leaves _single_url_task: the future holds it
Escapes(i, cls, exc) ==
    /\ pc' = [pc EXCEPT ![i] = "done"]
    /\ future' = [future EXCEPT ![i] = <<Raised(cls, exc)>>]
    /\ result' = [result EXCEPT ![i] = <<>>]
    /\ response' = [response EXCEPT ![i] = <<>>]
    /\ UNCHANGED <<attempts, last_result, lastCheck>>

\* the pacing sleep taken between attempts only
PacedBetween(i) == delay # 0 /\ attempts[i] > 0

\* `if self.delay:`
Paced(i) == delay # 0

\* the loop test, and what follows it without blocking
LoopTest(i) ==
    /\ pc[i] = "loop"
    /\ IF ShouldAttempt(attempts[i], retries)
       THEN /\ pc' = [pc EXCEPT ![i] = IF Paced(i) THEN "delay" ELSE "check"]
            /\ UNCHANGED future
       ELSE /\ pc' = [pc EXCEPT ![i] = "done"]
            /\ future' = [future EXCEPT ![i] = <<Returned(Exhausted(urls[i], last_result[i]))>>]
    /\ UNCHANGED <<attempts, last_result, result, response>>
    /\ UNCHANGED <<cfgvars, mainvars, histvars, clockvars>>

\* time.sleep(self.delay) ends
DelayDone(i) ==
    /\ pc[i] = "delay"
    /\ pc' = [pc EXCEPT ![i] = "check"]
    /\ ndelay' = [ndelay EXCEPT ![i] = ndelay[i] + 1]
    /\ UNCHANGED <<attempts, last_result, result, response, future>>
    /\ UNCHANGED <<calls, nhead, nget, slept, seen, lastCheck, replies>>
    /\ UNCHANGED <<cfgvars, mainvars, clockvars>>

\* check_url is entered: the empty-URL test, then the HEAD request is issued
CheckBegin(i) ==
    /\ pc[i] = "check"
    /\ calls' = [calls EXCEPT ![i] = calls[i] + 1]
    /\ seen' = [seen EXCEPT ![i] = NothingSeen]
    /\ replies' = [replies EXCEPT ![i] = NoReplies]
    /\ LET url == Strip(urls[i]) IN
       IF url = ""
       THEN /\ AfterCheck(i, EmptyUrlRecord)
            /\ UNCHANGED nhead
       ELSE /\ result' = [result EXCEPT ![i] = <<InitialResult(url)>>]
            /\ pc' = [pc EXCEPT ![i] = "head"]
            /\ nhead' = [nhead EXCEPT ![i] = nhead[i] + 1]
            /\ UNCHANGED <<attempts, last_result, response, future, lastCheck>>
    /\ UNCHANGED <<nget, ndelay, slept>>
    /\ UNCHANGED <<cfgvars, mainvars, clockvars>>

\* self.session.head(url, timeout=5) ends with `head`
HeadDone(i, head) ==
    /\ pc[i] = "head"
    /\ seen' = [seen EXCEPT ![i].head = IF head.kind = "response" THEN "response" ELSE head.cls]
    /\ replies' = [replies EXCEPT ![i].head = <<head>>]
    /\ IF head.kind = "response" /\ HeadResult(result[i][1], head).returns
       THEN /\ AfterCheck(i, HeadResult(result[i][1], head).result)
            /\ UNCHANGED nget
       ELSE IF head.kind = "response" \/ HeadCatches(head.cls)
       THEN /\ result' = [result EXCEPT ![i] =
                 IF head.kind = "response"
                 THEN <<HeadResult(result[i][1], head).result>>
                 ELSE result[i]]
            /\ pc' = [pc EXCEPT ![i] = "get"]
            /\ nget' = [nget EXCEPT ![i] = nget[i] + 1]
            /\ UNCHANGED <<attempts, last_result, response, future, lastCheck>>
       ELSE /\ Escapes(i, head.cls, head.exc)
            /\ UNCHANGED nget
    /\ UNCHANGED <<calls, nhead, ndelay, slept>>
    /\ UNCHANGED <<cfgvars, mainvars, clockvars>>

\* self.session.get(url, timeout=10) ends with `get`
GetDone(i, get) ==
    /\ pc[i] = "get"
    /\ seen' = [seen EXCEPT ![i].get = IF get.kind = "response" THEN "response" ELSE get.cls]
    /\ replies' = [replies EXCEPT ![i].get = <<get>>]
    /\ IF get.kind = "response"
       THEN LET r == [result[i][1] EXCEPT !.status = get.status] IN
            IF get.status = 429
            THEN IF WaitTimeRaises(get)
                 THEN Escapes(i, "ValueError", "invalid literal for int()")
                 ELSE /\ result' = [result EXCEPT ![i] = <<r>>]
                      /\ response' = [response EXCEPT ![i] = <<get>>]
                      /\ pc' = [pc EXCEPT ![i] = "wait429"]
                      /\ UNCHANGED <<attempts, last_result, future, lastCheck>>
            ELSE AfterCheck(i, Classify(r, get, verify_content))
       ELSE IF GetCatches(get.cls)
       THEN AfterCheck(i, GetFailure(result[i][1], get))
       ELSE Escapes(i, get.cls, get.exc)
    /\ UNCHANGED <<calls, nhead, nget, ndelay, slept>>
    /\ UNCHANGED <<cfgvars, mainvars, clockvars>>

\* time.sleep(wait_time) ends; the same response is then classified
WaitDone(i) ==
    /\ pc[i] = "wait429"
    /\ slept' = [slept EXCEPT ![i] = slept[i] + wait_time(response[i][1])]
    /\ AfterCheck(i, Classify(result[i][1], response[i][1], verify_content))
    /\ UNCHANGED <<calls, nhead, nget, ndelay, seen, replies>>
    /\ UNCHANGED <<cfgvars, mainvars, clockvars>>

-----------------------------------------------------------------------------
(* process_urls: the pool and the main thread.                             *)

\* a pool that keeps one of its threads idle
WorkerFreeBelow == Cardinality(Running) < max_workers - 1

\* a pool that starts one thread too many
WorkerFreeOneMore == Cardinality(Running) <= max_workers

\* ThreadPoolExecutor(max_workers=...): a thread is free to take a work item
WorkerFree == Cardinality(Running) < max_workers

\* a pool thread takes the oldest queued work item and enters _single_url_task
Start(i) ==
    /\ pc[i] = "queued"
    /\ \A j \in Indices : pc[j] = "queued" => i <= j
    /\ WorkerFree
    /\ pc' = [pc EXCEPT ![i] = "loop"]
    /\ attempts' = [attempts EXCEPT ![i] = 0]
    /\ last_result' = [last_result EXCEPT ![i] = <<>>]
    /\ UNCHANGED <<result, response, future>>
    /\ UNCHANGED <<cfgvars, mainvars, histvars, clockvars>>

\* the dict comprehension: one executor.submit per URL, in input order
Submit ==
    /\ mainpc = "submit"
    /\ IF submitted < Len(urls)
       THEN /\ submitted' = submitted + 1
            /\ pc' = [pc EXCEPT ![submitted + 1] = "queued"]
            /\ UNCHANGED mainpc
       ELSE /\ mainpc' = "collect"
            /\ UNCHANGED <<submitted, pc>>
    /\ UNCHANGED <<results, completed_count, yielded, nwrite, csv>>
    /\ UNCHANGED <<attempts, last_result, result, response, future>>
    /\ UNCHANGED <<cfgvars, histvars, clockvars>>

\* the slot of a results list filled in completion order
SlotByCompletion(i) == completed_count + 1

\* future_to_index[future]
SlotOf(i) == i

\* the synthetic record with the bare exception text as its reason
UnhandledRecordBare(url, exc) == Record(url, None, TRUE, exc)

\* the record stored when future.result() raises
UnhandledRecord(url, exc) ==
    Record(url, None, TRUE, "Unhandled exception: " \o exc)

\* the try/except around future.result()
Stored(i) ==
    IF future[i][1].ok
    THEN future[i][1].value
    ELSE UnhandledRecord(urls[i], future[i][1].exc)

\* a progress line for every completion that finds the clock advanced
ShouldPrintAnyAdvance(current_time, last) == current_time - last > 0

\* `if current_time - last_print_time >= print_interval`
ShouldPrint(current_time, last) == current_time - last >= print_interval

\* an iterator that yields a finished future again
UnyieldedOrFirst(i) == i \notin Range(yielded) \/ i = 1

\* as_completed yields each future once
Unyielded(i) == i \notin Range(yielded)

\* one iteration of `for future in as_completed(future_to_index)`
Collect(i) ==
    /\ mainpc = "collect"
    /\ future[i] # <<>>
    /\ Unyielded(i)
    /\ yielded' = Append(yielded, i)
    /\ results' = [results EXCEPT ![SlotOf(i)] = <<Stored(i)>>]
    /\ nwrite' = [nwrite EXCEPT ![SlotOf(i)] = nwrite[SlotOf(i)] + 1]
    /\ completed_count' = completed_count + 1
    /\ LET current_time == now IN
       IF ShouldPrint(current_time, last_print_time)
       THEN /\ progress' = Append(progress, [at |-> current_time, printed |-> TRUE])
            /\ last_print_time' = current_time
       ELSE /\ progress' = Append(progress, [at |-> current_time, printed |-> FALSE])
            /\ UNCHANGED last_print_time
    /\ UNCHANGED <<mainpc, submitted, csv, now, start_time>>
    /\ UNCHANGED <<cfgvars, taskvars, histvars>>

\* a loop over the futures that are finished when it looks
DrainedFinished == \A i \in Indices : future[i] # <<>> => i \in Range(yielded)

\* as_completed is exhausted
Drained == Range(yielded) = Indices

\* the loop and the `with` block end; process_urls returns results
Return ==
    /\ mainpc = "collect"
    /\ Drained
    /\ mainpc' = "returned"
    /\ UNCHANGED <<submitted, results, completed_count, yielded, nwrite, csv>>
    /\ UNCHANGED <<cfgvars, taskvars, histvars, clockvars>>

-----------------------------------------------------------------------------
(* save_results_to_csv, as run calls it with an output file.               *)

\* str(status) and str(expired)
StrStatus(st) == IF st = None THEN "None" ELSE ToString(st)

StrBool(b) == IF b THEN "True" ELSE "False"

\* the sheet text chosen by the status instead of the expired flag
sheet_textByStatus(r) == IF r.status = None THEN "No Longer Interested" ELSE ""

sheet_text(r) == IF r.expired THEN "No Longer Interested" ELSE ""

Row(r) == <<r.url, StrStatus(r.status), StrBool(r.expired), r.reason, sheet_text(r)>>

HeaderRow == <<"URL", "Status", "Expired", "Reason", "Sheet Text">>

\* sep.join(row)
RECURSIVE Join(_, _)
Join(row, sep) ==
    IF row = <<>> THEN ""
    ELSE IF Len(row) = 1 THEN row[1]
    ELSE row[1] \o sep \o Join(Tail(row), sep)

\* the rows after `output_lines.insert(0, [...])`
output_lines(rs) == <<HeaderRow>> \o [k \in 1..Len(rs) |-> Row(rs[k][1])]

\* run: `if output_file: self.save_results_to_csv(results, output_file)`
SaveResults ==
    /\ mainpc = "returned"
    /\ mainpc' = "saved"
    /\ csv' = <<[k \in 1..(Len(results) + 1) |->
                    Join(output_lines(results)[k], ", ") \o "\n"]>>
    /\ UNCHANGED <<submitted, results, completed_count, yielded, nwrite>>
    /\ UNCHANGED <<cfgvars, taskvars, histvars, clockvars>>

-----------------------------------------------------------------------------
(* A batch of URLs on a small network.                                     *)

BatchUrls == {" ", "http://a.io/j"}

BatchHead ==
    { Reply(200, <<>>, "", <<>>, <<>>),
      Raises("ConnectionError", "refused") }

BatchGet ==
    { Reply(200, <<>>, "", <<>>, <<>>),
      Reply(429, <<<<50>>>>, "", <<>>, <<>>),
      Raises("ConnectionError", "refused"),
      Raises("UnicodeError", "") }

UrlLists(pool, n) == UNION {[1..k -> pool] : k \in 0..n}

Init ==
    InitWith(UrlLists(BatchUrls, MaxUrls), 0..MaxBatchRetries, 1..MaxWorkers, {0, 1}, {FALSE})

Next ==
    \/ Submit
    \/ Return
    \/ \E i \in Indices :
         \/ Start(i)
         \/ LoopTest(i)
         \/ DelayDone(i)
         \/ CheckBegin(i)
         \/ \E head \in BatchHead : HeadDone(i, head)
         \/ \E get \in BatchGet : GetDone(i, get)
         \/ WaitDone(i)
         \/ Collect(i)

Spec == Init /\ [][Next]_vars

-----------------------------------------------------------------------------
(* One URL on a network that can answer anything check_url distinguishes.  *)

UrlPool ==
    { "", " \t", " http://a.io/j\n",
      "http://x.WorkDay.com/j",
      "http://greenhouse.io/j",
      "http://jobvite.com/j" }

HeadStatuses == {200, 399, 400, 404, 429, 599, 600}

GetStatuses == {200, 399, 400, 404, 429, 600}

\* headers.get("Retry-After"): None, "", "2", "07", "soon", "-1", U+00B2
RetryAfters ==
    { <<>>, <<<<>>>>, <<<<50>>>>, <<<<48, 55>>>>, <<<<115, 111, 111, 110>>>>,
      <<<<45, 49>>>>, <<<<178>>>> }

Meta(name, property, content) == [name |-> name, property |-> property, content |-> content]

\* response.text and the meta tags a parser finds in it
Pages ==
    { [text |-> "", metas |-> <<>>],
      [text |-> "Hiring", metas |-> <<Meta("description", "og:description", "Engineer")>>],
      [text |-> "Hiring", metas |-> <<Meta("description", "og:description", " ")>>],
      [text |-> "Hiring", metas |-> <<Meta("", "og:description", "Engineer")>>],
      [text |-> "Position has been FILLED", metas |-> <<>>],
      [text |-> "Job Expired: job not found",
       metas |-> <<Meta("viewport", "", "x"), Meta("description", "og:description", "Engineer")>>] }

\* the pages without meta tags
PlainPages == {p \in Pages : p.metas = <<>>}

Redirects ==
    { <<>>, <<"http://greenhouse.io/all">>,
      <<"http://greenhouse.io/j?error=true">>,
      <<"http://jobvite.com/j?error=404">> }

UrlHead ==
    {Reply(st, <<>>, "", <<>>, <<>>) : st \in HeadStatuses}
        \cup {Raises(cls, "") : cls \in RequestExceptions \cup {"UnicodeError"}}

UrlGet ==
    {Reply(st, <<>>, p.text, <<>>, <<>>) : st \in GetStatuses \ {429}, p \in PlainPages}
        \cup {Reply(429, ra, p.text, <<>>, <<>>) : ra \in RetryAfters, p \in PlainPages}
        \cup {Raises(cls, "") : cls \in RequestExceptions \cup {"UnicodeError"}}
        \cup {Raises("ConnectionError", "refused")}

InitUrl ==
    InitWith(UrlLists(UrlPool, 1), (0 - 1)..MaxRetries, {1}, {0, 1}, BOOLEAN)

NextUrl ==
    \/ Submit
    \/ Return
    \/ \E i \in Indices :
         \/ Start(i)
         \/ LoopTest(i)
         \/ DelayDone(i)
         \/ CheckBegin(i)
         \/ \E head \in UrlHead : HeadDone(i, head)
         \/ \E get \in UrlGet : GetDone(i, get)
         \/ WaitDone(i)
         \/ Collect(i)

SpecUrl == InitUrl /\ [][NextUrl]_vars

-----------------------------------------------------------------------------
(* One attempt on one URL, with every page and redirect the content checks *)
(* of check_url distinguish.                                               *)

PageUrls == UrlPool \cup {"http://workday.greenhouse.io/j"}

PageStatuses == {200, 399}

PageHead == {Reply(200, <<>>, "", <<>>, <<>>), Raises("ConnectTimeout", "")}

PageGet ==
    {Reply(st, <<>>, p.text, p.metas, rd) :
        st \in PageStatuses, p \in Pages, rd \in Redirects}
        \cup {Reply(429, <<<<50>>>>, p.text, p.metas, <<>>) : p \in Pages}
        \cup {Reply(404, <<>>, p.text, <<>>, <<>>) : p \in PlainPages}
        \cup {Raises("ReadTimeout", "")}

InitPage == InitWith(UrlLists(PageUrls, 1), {0}, {1}, {0, 1}, BOOLEAN)

NextPage ==
    \/ Submit
    \/ Return
    \/ \E i \in Indices :
         \/ Start(i)
         \/ LoopTest(i)
         \/ DelayDone(i)
         \/ CheckBegin(i)
         \/ \E head \in PageHead : HeadDone(i, head)
         \/ \E get \in PageGet : GetDone(i, get)
         \/ WaitDone(i)
         \/ Collect(i)

SpecPage == InitPage /\ [][NextPage]_vars

-----------------------------------------------------------------------------
(* A batch on a network that answers every HEAD with 200 and rate-limits   *)
(* every GET, with the clock running.                                      *)

ClockGet == {Reply(429, <<<<50>>>>, "", <<>>, <<>>)}

\* a second passes
Tick ==
    /\ now < MaxTime
    /\ now' = now + 1
    /\ UNCHANGED <<start_time, last_print_time, progress>>
    /\ UNCHANGED <<cfgvars, mainvars, taskvars, histvars>>

InitClock ==
    InitWith(UrlLists({"http://a.io/j"}, MaxClockUrls), {0}, {MaxWorkers}, {1}, {FALSE})

NextClock ==
    \/ Tick
    \/ Submit
    \/ Return
    \/ \E i \in Indices :
         \/ Start(i)
         \/ LoopTest(i)
         \/ DelayDone(i)
         \/ CheckBegin(i)
         \/ HeadDone(i, Reply(200, <<>>, "", <<>>, <<>>))
         \/ \E get \in ClockGet : GetDone(i, get)
         \/ WaitDone(i)
         \/ Collect(i)

SpecClock == InitClock /\ [][NextClock]_vars

-----------------------------------------------------------------------------
(* run with an output file: process_urls, then save_results_to_csv; and    *)
(* the same under fair scheduling of the main thread and the pool threads. *)

InitRun ==
    InitWith(UrlLists(BatchUrls, MaxRunUrls), 0..MaxBatchRetries, 1..MaxWorkers, {0, 1}, {FALSE})

\* the steps of the main thread
MainThread ==
    \/ Submit
    \/ \E i \in Indices : Collect(i)
    \/ Return
    \/ SaveResults

\* the steps of the unit of work for URL i, in a pool thread
Worker(i) ==
    /\ i \in Indices
    /\ \/ Start(i)
       \/ LoopTest(i)
       \/ DelayDone(i)
       \/ CheckBegin(i)
       \/ \E head \in BatchHead : HeadDone(i, head)
       \/ \E get \in BatchGet : GetDone(i, get)
       \/ WaitDone(i)

NextRun ==
    \/ Submit
    \/ Return
    \/ SaveResults
    \/ \E i \in Indices :
         \/ Start(i)
         \/ LoopTest(i)
         \/ DelayDone(i)
         \/ CheckBegin(i)
         \/ \E head \in BatchHead : HeadDone(i, head)
         \/ \E get \in BatchGet : GetDone(i, get)
         \/ WaitDone(i)
         \/ Collect(i)

SpecRun == InitRun /\ [][NextRun]_vars

\* the main thread and every pool thread keep running; every request, sleep
\* and wait ends
FairRun ==
    /\ InitRun
    /\ [][NextRun]_vars
    /\ WF_vars(MainThread)
    /\ \A i \in 1..MaxRunUrls : WF_vars(Worker(i))

-----------------------------------------------------------------------------
(* Properties of process_urls on a batch (Spec).                           *)

IsRaised(i) == future[i] # <<>> /\ ~future[i][1].ok

IsReturned(i) == future[i] # <<>> /\ future[i][1].ok

Replied(i) == seen[i].head = "response" \/ seen[i].get = "response"

\* C1: when process_urls returns, the list has one record per input URL and
\* record i is the outcome of the unit of work submitted for URL i, whatever
\* the order in which the futures completed.
C1_OrderPreserved ==
    mainpc = "returned" =>
        /\ Len(results) = Len(urls)
        /\ \A i \in Indices :
              /\ results[i] # <<>>
              /\ results[i][1].url \in {Strip(urls[i]), urls[i]}
              /\ IsReturned(i) => results[i][1] = future[i][1].value
              /\ IsRaised(i) =>
                    results[i][1].reason = "Unhandled exception: " \o future[i][1].exc

\* a batch of different URLs has returned, collected in another order than submitted
C1_Witness ==
    /\ mainpc = "returned"
    /\ Len(urls) = 3
    /\ Strip(urls[1]) # Strip(urls[2])
    /\ yielded = <<3, 1, 2>>
    /\ results[1] # results[2]

\* C2: in the state where process_urls returns, no slot of the result list
\* is None and no unit of work is queued or running.
C2_FullDrain ==
    mainpc = "returned" =>
        \A i \in Indices : results[i] # <<>> /\ pc[i] = "done" /\ future[i] # <<>>

\* a batch of three has returned after one of its URLs was retried
C2_Witness ==
    /\ mainpc = "returned"
    /\ Len(urls) = 3
    /\ \E i \in Indices : calls[i] = 2

\* C3: at most max_workers units of work are inside _single_url_task at once.
C3_BoundedInFlight == Cardinality(Running) <= max_workers

\* every pool thread is busy (one of them sleeping, one waiting for the
\* network) while a submitted URL waits in the queue
C3_Witness ==
    /\ max_workers = 2
    /\ Cardinality(Running) = 2
    /\ \E i \in Indices : pc[i] = "queued"
    /\ \E i \in Indices : pc[i] \in {"delay", "wait429"}
    /\ \E i \in Indices : pc[i] \in {"head", "get"}

\* C7 as stated: the record stored for a unit of work that raised has
\* expired = false and a non-empty reason, and the other records are those
\* their own units of work produced.
C7_AsStated ==
    mainpc = "returned" =>
        \A i \in Indices :
            /\ IsRaised(i) => ~results[i][1].expired /\ results[i][1].reason # ""
            /\ IsReturned(i) => results[i] = lastCheck[i]

\* C7 amended: the record stored for a unit of work that raised carries the
\* input URL, expired = true and a non-empty reason, and every other record
\* is what the last check_url call of its own unit of work returned.
C7_FaultIsolated ==
    mainpc = "returned" =>
        \A i \in Indices :
            /\ IsRaised(i) =>
                  /\ results[i][1].url = urls[i]
                  /\ results[i][1].expired
                  /\ results[i][1].reason # ""
            /\ IsReturned(i) => results[i] = lastCheck[i]

\* a batch has returned in which one unit of work raised before the others
\* were collected
C7_Witness ==
    /\ mainpc = "returned"
    /\ Len(urls) = 3
    /\ IsRaised(2) /\ IsReturned(1) /\ IsReturned(3)
    /\ yielded[1] = 2

-----------------------------------------------------------------------------
(* Properties of the retry controller and of check_url (SpecUrl).          *)

\* the record the unit of work for URL i returned
Value(i) == future[i][1].value

HasPrefix(s, prefix) == SubSeq(s, 1, Len(prefix)) = prefix

\* C4: with retries >= 0, a unit of work never calls check_url more than
\* retries + 1 times, and one that returns a record with status None (every
\* attempt returned status None) has called it exactly retries + 1 times.
C4_ExactAttempts ==
    \A i \in Indices :
        retries >= 0 =>
            /\ calls[i] <= retries + 1
            /\ (IsReturned(i) /\ Value(i).status = None) => calls[i] = retries + 1

\* with retries = 2, a URL that never got a reply was tried three times,
\* each time with a HEAD and a GET request
C4_Witness ==
    /\ retries = 2
    /\ Len(urls) = 1
    /\ IsReturned(1)
    /\ Value(1).status = None
    /\ calls[1] = 3 /\ nhead[1] = 3 /\ nget[1] = 3

\* the state after the retry controller, with retries = 2, gave up on a
\* non-empty URL: three attempts, each with a HEAD and a GET request and no
\* reply, the last one ending in connection errors
ConnectFailedThrice ==
    /\ retries = 2
    /\ Len(urls) = 1
    /\ Strip(urls[1]) # ""
    /\ IsReturned(1)
    /\ calls[1] = 3 /\ nhead[1] = 3 /\ nget[1] = 3
    /\ seen[1].head = "ConnectionError"
    /\ seen[1].get = "ConnectionError"

\* C5 as stated: the final result is {status: None, expired: false,
\* reason: "Max retries exceeded"}.
C5_AsStated ==
    ConnectFailedThrice =>
        /\ Value(1).status = None
        /\ ~Value(1).expired
        /\ Value(1).reason = "Max retries exceeded"

\* C5 amended: the final result is the record of the last attempt: status
\* None, expired = true, reason "Request Error: <description>", with the
\* stripped URL.
C5_LastResultReturned ==
    ConnectFailedThrice =>
        /\ Value(1).url = Strip(urls[1])
        /\ Value(1).status = None
        /\ Value(1).expired
        /\ HasPrefix(Value(1).reason, "Request Error: ")
        /\ <<Value(1)>> = lastCheck[1]

\* the retry controller gave up after three failed connections
C5_Witness == ConnectFailedThrice /\ Value(1).reason = "Request Error: refused"

\* C6: as soon as a check_url call returns a record with a status, the unit
\* of work is finished with exactly that record, and a finished unit of work
\* makes no further call, request or sleep.
C6_FirstStatusIsTerminal ==
    [][\A i \in Indices :
          /\ (lastCheck'[i] # <<>> /\ lastCheck'[i][1].status # None) =>
                /\ pc'[i] = "done"
                /\ future'[i] = <<Returned(lastCheck'[i][1])>>
          /\ pc[i] = "done" =>
                /\ pc'[i] = "done"
                /\ future'[i] = future[i]
                /\ calls'[i] = calls[i]
                /\ nhead'[i] = nhead[i]
                /\ nget'[i] = nget[i]
                /\ ndelay'[i] = ndelay[i]
                /\ slept'[i] = slept[i]]_vars

\* with retry budget left, the second attempt got a status for an expired
\* page and the unit of work returned it
C6_Witness ==
    /\ retries = 2
    /\ Len(urls) = 1
    /\ calls[1] = 2
    /\ IsReturned(1)
    /\ Value(1).status = 404
    /\ Value(1).expired
    /\ mainpc = "returned"

RecordsOf(i) ==
    IF pc[i] \in {"loop", "done"}
    THEN Range(results[i])
            \cup (IF IsRaised(i) THEN {} ELSE Range(lastCheck[i]))
            \cup (IF IsReturned(i) THEN {Value(i)} ELSE {})
    ELSE {}

\* C9 as stated: every record has a non-empty reason.
C9_AsStated == \A i \in Indices : \A r \in RecordsOf(i) : r.reason # ""

\* C9 amended: a record has an empty reason exactly when it comes from an
\* attempt whose GET request got a reply and is not expired (the live-page
\* path, which never sets the reason); every other record, and every
\* expired record, has a non-empty reason.
C9_ReasonEmptyOnlyWhenLive ==
    \A i \in Indices : \A r \in RecordsOf(i) :
        r.reason = "" <=> (seen[i].get = "response" /\ ~r.expired)

\* process_urls returned a live page's record, checked with content
\* verification, whose reason is empty
C9_Witness ==
    /\ mainpc = "returned"
    /\ Len(urls) = 1
    /\ verify_content
    /\ results[1] # <<>>
    /\ results[1][1].status = 200
    /\ results[1][1].reason = ""

\* C10 as stated: in the returned list, a record has status None only if
\* neither the HEAD nor the GET of its attempt got a reply.
C10_AsStated ==
    mainpc = "returned" =>
        \A i \in Indices : results[i][1].status = None => ~Replied(i)

\* C10 amended: in the returned list, a record that a unit of work returned
\* has status None exactly when neither the HEAD nor the GET of its last
\* attempt got a reply; the record stored for a unit of work that raised has
\* status None whether or not a reply had arrived.
C10_StatusNoneIffNoReply ==
    mainpc = "returned" =>
        \A i \in Indices :
            /\ IsReturned(i) => (results[i][1].status = None <=> ~Replied(i))
            /\ IsRaised(i) => results[i][1].status = None

\* process_urls returned a record that keeps the HEAD status although the
\* GET request failed
C10_Witness ==
    /\ mainpc = "returned"
    /\ Len(urls) = 1
    /\ seen[1].head = "response"
    /\ seen[1].get = "ConnectionError"
    /\ results[1][1].status = 200

-----------------------------------------------------------------------------
(* Properties of one check_url call (SpecUrl).                             *)

\* the string is empty or made of whitespace only
IsBlank(s) == \A k \in 1..Len(s) : CharAt(s, k) \in Whitespace

\* the status of the HEAD / GET reply of the current attempt, None without a reply
HeadStatus(i) == IF replies[i].head = <<>> THEN None ELSE replies[i].head[1].status

GetStatus(i) == IF replies[i].get = <<>> THEN None ELSE replies[i].get[1].status

\* the last check_url call for URL i has returned its record
CheckReturned(i) == pc[i] \in {"loop", "done"} /\ lastCheck[i] # <<>> /\ ~IsRaised(i)

\* C11 as stated: check_url on an empty or whitespace-only URL returns
\* {status: None, expired: false, reason: "Empty URL"} at once, without a
\* HEAD or a GET request.
C11_AsStated ==
    \A i \in Indices :
        IsBlank(urls[i]) =>
            /\ nhead[i] = 0 /\ nget[i] = 0
            /\ calls[i] > 0 =>
                  /\ lastCheck[i] # <<>>
                  /\ lastCheck[i][1].status = None
                  /\ ~lastCheck[i][1].expired
                  /\ lastCheck[i][1].reason = "Empty URL"

\* C11 amended: check_url on an empty or whitespace-only URL returns
\* {url: "", status: None, expired: true, reason: "Empty or invalid URL"} at
\* once (in the step that enters it), without a HEAD or a GET request and
\* without sleeping.
C11_EmptyUrlShortCircuit ==
    \A i \in Indices :
        IsBlank(urls[i]) =>
            /\ nhead[i] = 0 /\ nget[i] = 0 /\ slept[i] = 0
            /\ pc[i] \notin {"head", "get", "wait429"}
            /\ calls[i] > 0 =>
                  lastCheck[i] = <<Record("", None, TRUE, "Empty or invalid URL")>>

\* check_url was called once on a URL of a blank and a tab
C11_Witness ==
    /\ Len(urls) = 1
    /\ urls[1] = " \t"
    /\ calls[1] = 1
    /\ lastCheck[1] # <<>>
    /\ lastCheck[1][1].expired

\* C12: when the HEAD request is answered with 404, check_url returns at
\* once a record with status 404, expired = true and a reason naming "404"
\* and "HEAD", and the attempt issues no GET request (the unit of work has
\* issued one GET fewer than HEADs: each earlier attempt issued both).
C12_Head404Expired ==
    \A i \in Indices :
        HeadStatus(i) = 404 =>
            /\ pc[i] = "done"
            /\ IsReturned(i)
            /\ lastCheck[i] = <<Value(i)>>
            /\ Value(i).status = 404
            /\ Value(i).expired
            /\ Contains(Value(i).reason, "404")
            /\ Contains(Value(i).reason, "HEAD")
            /\ replies[i].get = <<>>
            /\ nget[i] = nhead[i] - 1

\* the second attempt's HEAD request was answered with 404 after a first
\* attempt without a reply
C12_Witness ==
    /\ Len(urls) = 1
    /\ calls[1] = 2
    /\ nhead[1] = 2 /\ nget[1] = 1
    /\ HeadStatus(1) = 404
    /\ IsReturned(1)
    /\ Value(1).reason = "404 Not Found (HEAD)"

\* the header value is a non-negative decimal integer
IsDecimal(h) == h # <<>> /\ \A k \in 1..Len(h) : h[k] \in AsciiDigits

\* the wait the Retry-After header asks for, 60 when absent or not a number
StatedWait(resp) ==
    IF resp.retry_after # <<>> /\ IsDecimal(resp.retry_after[1])
    THEN ParseInt(resp.retry_after[1])
    ELSE DefaultWait

\* C13 as stated: after a GET reply with status 429, check_url is blocked
\* with no result yet, or it has returned after sleeping the seconds of a
\* decimal Retry-After header, 60 when the header is absent or not a number.
C13_AsStated ==
    \A i \in Indices :
        GetStatus(i) = 429 =>
            \/ /\ pc[i] = "wait429"
               /\ future[i] = <<>>
               /\ slept[i] = 0
            \/ /\ pc[i] = "done"
               /\ IsReturned(i)
               /\ lastCheck[i] = <<Value(i)>>
               /\ slept[i] = StatedWait(replies[i].get[1])

\* a 429 reply whose Retry-After is U+00B2 ended the unit of work with a
\* ValueError, without a wait and without a record
C13_Witness ==
    /\ Len(urls) = 1
    /\ GetStatus(1) = 429
    /\ replies[1].get[1].retry_after = <<<<178>>>>
    /\ IsRaised(1)
    /\ future[1][1].cls = "ValueError"
    /\ slept[1] = 0

\* the GET request of the attempt was answered with 429 and Retry-After: 2,
\* and the attempt has ended
Limited2(i) ==
    /\ GetStatus(i) = 429
    /\ replies[i].get[1].retry_after = <<<<50>>>>
    /\ pc[i] = "done"

\* C14 as stated: after a GET reply of 429 with Retry-After: 2, the attempt
\* blocks at least 2 seconds and returns a record with a status other than 429.
C14_AsStated ==
    \A i \in Indices :
        Limited2(i) =>
            /\ IsReturned(i)
            /\ slept[i] >= 2
            /\ Value(i).status # None
            /\ Value(i).status # 429

\* C14 amended: after a GET reply of 429 with Retry-After: 2, the attempt
\* blocks 2 seconds and returns the record of the 429 reply itself: status
\* 429, classified from the reply received before the wait, with no second
\* GET request (as many GETs as HEADs); without content verification the
\* record is not expired and its reason is empty.
C14_Returns429AfterWait ==
    \A i \in Indices :
        Limited2(i) =>
            /\ IsReturned(i)
            /\ slept[i] = 2
            /\ Value(i).status = 429
            /\ lastCheck[i] = <<Value(i)>>
            /\ nget[i] = nhead[i]
            /\ ~verify_content => (~Value(i).expired /\ Value(i).reason = "")

\* process_urls returned the record of a 429 reply after the 2 second wait
C14_Witness ==
    /\ Len(urls) = 1
    /\ mainpc = "returned"
    /\ Limited2(1)
    /\ slept[1] = 2
    /\ results[1] = <<Record(Strip(urls[1]), 429, FALSE, "")>>

\* C15 as stated: an attempt in which the HEAD or the GET request was
\* answered with 429 ends with a returned record that is not "expired with
\* a reason naming the status code", after a blocking wait.
C15_AsStated ==
    \A i \in Indices :
        (pc[i] = "done" /\ (HeadStatus(i) = 429 \/ GetStatus(i) = 429)) =>
            /\ IsReturned(i)
            /\ ~(Value(i).expired /\ Contains(Value(i).reason, "429"))
            /\ slept[i] > 0

\* a HEAD reply of 429 ended the attempt at once with an expired record
\* naming the status code
C15_Witness ==
    /\ Len(urls) = 1
    /\ HeadStatus(1) = 429
    /\ IsReturned(1)
    /\ Value(1) = Record(Strip(urls[1]), 429, TRUE, "Error 429 (HEAD)")
    /\ slept[1] = 0
    /\ replies[1].get = <<>>

\* the GET request of the last attempt failed in transport with class cls
GetFailed(i, cls) ==
    /\ CheckReturned(i)
    /\ replies[i].get # <<>>
    /\ replies[i].get[1].kind = "raise"
    /\ replies[i].get[1].cls = cls

\* C16 as stated: a GET transport failure gives expired = false, with a
\* reason naming "Read Timeout" for a read timeout and "Request Error:
\* <description>" for any other transport failure.
C16_AsStated ==
    \A i \in Indices : \A cls \in RequestExceptions :
        GetFailed(i, cls) =>
            /\ ~lastCheck[i][1].expired
            /\ IF cls = "ReadTimeout"
               THEN Contains(lastCheck[i][1].reason, "Read Timeout")
               ELSE lastCheck[i][1].reason = "Request Error: " \o replies[i].get[1].exc

\* C16 amended: a GET read timeout gives expired = false with the reason
\* "Read Timeout (uncertain status)"; any other GET transport failure gives
\* expired = true with the reason "Request Error: <description>".
C16_GetFailureRecord ==
    \A i \in Indices : \A cls \in RequestExceptions :
        GetFailed(i, cls) =>
            IF cls = "ReadTimeout"
            THEN /\ ~lastCheck[i][1].expired
                 /\ lastCheck[i][1].reason = "Read Timeout (uncertain status)"
            ELSE /\ lastCheck[i][1].expired
                 /\ lastCheck[i][1].reason = "Request Error: " \o replies[i].get[1].exc

\* after a HEAD reply of 200 the GET request timed out while connecting
C16_Witness ==
    /\ Len(urls) = 1
    /\ HeadStatus(1) = 200
    /\ GetFailed(1, "ConnectTimeout")
    /\ lastCheck[1][1].status = 200
    /\ lastCheck[1][1].expired

-----------------------------------------------------------------------------
(* Properties of the content checks of check_url (SpecPage).               *)

\* check_url has returned after its GET request was answered
GotPage(i) ==
    /\ CheckReturned(i)
    /\ replies[i].get # <<>>
    /\ replies[i].get[1].kind = "response"

\* the GET reply, and the URL check_url requested
Page(i) == replies[i].get[1]

Requested(i) == lastCheck[i][1].url

\* the keywords the lower-cased body contains, by position in the list
MatchedKeywords(resp) ==
    {k \in 1..Len(keyword_list) : Contains(Lower(resp.text), keyword_list[k])}

FirstKeyword(resp) ==
    keyword_list[CHOOSE k \in MatchedKeywords(resp) : \A j \in MatchedKeywords(resp) : k <= j]

\* the URL names the provider, in any letter case
Names(url, provider) == Contains(Lower(url), provider)

\* the first meta tag with name "description" and property "og:description"
\* has a content that is not blank
DescriptionGiven(resp) ==
    \E k \in 1..Len(resp.metas) :
        /\ resp.metas[k].name = "description"
        /\ resp.metas[k].property = "og:description"
        /\ ~IsBlank(resp.metas[k].content)
        /\ \A j \in 1..(k - 1) :
              ~(resp.metas[j].name = "description" /\ resp.metas[j].property = "og:description")

\* no meta tag with property "og:description" has a content that is not blank
NoOgDescription(resp) ==
    \A k \in 1..Len(resp.metas) :
        resp.metas[k].property = "og:description" => IsBlank(resp.metas[k].content)

WorkdayFires(url, resp) == Names(url, "workday") /\ ~DescriptionGiven(resp)

GreenhouseFires(url, resp) ==
    /\ Names(url, "greenhouse")
    /\ (Contains(FinalUrl(url, resp), "?error=true") \/ FinalUrl(url, resp) # url)

JobviteFires(url, resp) ==
    Names(url, "jobvite") /\ Contains(FinalUrl(url, resp), "?error=404")

ProviderFires(url, resp) ==
    WorkdayFires(url, resp) \/ GreenhouseFires(url, resp) \/ JobviteFires(url, resp)

WorkdayReason == "Workday page missing meta og:description content"

LaterProviderReasons ==
    { "Greenhouse page indicates expired job",
      "Greenhouse page redirected",
      "Jobvite page indicates expired job" }

\* with content verification, the GET reply has status 200 and a body
\* containing a keyword
KeywordPage(i) ==
    /\ verify_content
    /\ GotPage(i)
    /\ Page(i).status = 200
    /\ MatchedKeywords(Page(i)) # {}

\* C17 as stated: with content verification, a GET reply of status 200
\* whose lower-cased body contains a keyword gives expired = true with a
\* reason containing the first matching keyword in list order.
C17_AsStated ==
    \A i \in Indices :
        KeywordPage(i) =>
            /\ lastCheck[i][1].expired
            /\ Contains(lastCheck[i][1].reason, FirstKeyword(Page(i)))

\* C17 amended: such a reply gives expired = true; the reason is "Page
\* content indicates expired job: <first matching keyword in list order>"
\* unless a provider check (workday, greenhouse, jobvite) also fires for
\* the URL, in which case the reason is that of a provider check.
C17_KeywordExpires ==
    \A i \in Indices :
        KeywordPage(i) =>
            /\ lastCheck[i][1].expired
            /\ IF ProviderFires(Requested(i), Page(i))
               THEN lastCheck[i][1].reason \in {WorkdayReason} \cup LaterProviderReasons
               ELSE lastCheck[i][1].reason =
                       "Page content indicates expired job: " \o FirstKeyword(Page(i))

\* a page containing the fourth and the first keyword was reported with the first
C17_Witness ==
    /\ Len(urls) = 1
    /\ KeywordPage(1)
    /\ Cardinality(MatchedKeywords(Page(1))) = 2
    /\ lastCheck[1][1].reason = "Page content indicates expired job: job not found"

\* with content verification, a workday URL got a GET reply with a status
\* below 400, no keyword in the body and no og:description content
WorkdayBare(i) ==
    /\ verify_content
    /\ GotPage(i)
    /\ Names(Requested(i), "workday")
    /\ Page(i).status < 400
    /\ MatchedKeywords(Page(i)) = {}
    /\ NoOgDescription(Page(i))

\* C18 as stated: such a reply gives exactly expired = true with the reason
\* "Workday page missing og:description".
C18_AsStated ==
    \A i \in Indices :
        WorkdayBare(i) =>
            /\ lastCheck[i][1].expired
            /\ lastCheck[i][1].reason = "Workday page missing og:description"

\* C18 amended: such a reply gives expired = true with the reason "Workday
\* page missing meta og:description content", unless the URL also names
\* greenhouse or jobvite and that provider's check fires, which replaces
\* the reason with its own.
C18_WorkdayMissingMeta ==
    \A i \in Indices :
        WorkdayBare(i) =>
            /\ lastCheck[i][1].expired
            /\ IF GreenhouseFires(Requested(i), Page(i)) \/ JobviteFires(Requested(i), Page(i))
               THEN lastCheck[i][1].reason \in LaterProviderReasons
               ELSE lastCheck[i][1].reason = WorkdayReason

\* a workday URL in mixed case got a page whose og:description content is blank
C18_Witness ==
    /\ Len(urls) = 1
    /\ urls[1] = "http://x.WorkDay.com/j"
    /\ WorkdayBare(1)
    /\ Page(1).metas # <<>>
    /\ lastCheck[1][1] = Record(urls[1], 200, TRUE, WorkdayReason)

\* the GET reply has a status below 400 and either content verification is
\* disabled or no keyword matches and no provider check fires
LivePage(i) ==
    /\ GotPage(i)
    /\ Page(i).status < 400
    /\ \/ ~verify_content
       \/ /\ MatchedKeywords(Page(i)) = {}
          /\ ~ProviderFires(Requested(i), Page(i))

\* C19 as stated: such a reply gives expired = false with the reason "OK".
C19_AsStated ==
    \A i \in Indices :
        LivePage(i) => (~lastCheck[i][1].expired /\ lastCheck[i][1].reason = "OK")

\* C19 amended: such a reply gives expired = false with the empty reason
\* the record was created with; the status is that of the GET reply.  For a
\* greenhouse URL any redirect counts as a provider check that fires.
C19_LiveRecord ==
    \A i \in Indices :
        LivePage(i) =>
            lastCheck[i][1] = Record(Requested(i), Page(i).status, FALSE, "")

\* with verification disabled, a page full of keywords behind a redirect
\* was recorded as live
C19_Witness ==
    /\ Len(urls) = 1
    /\ ~verify_content
    /\ LivePage(1)
    /\ MatchedKeywords(Page(1)) # {}
    /\ Page(1).redirect # <<>>
    /\ Names(Requested(1), "greenhouse")
    /\ lastCheck[1][1].reason = ""

-----------------------------------------------------------------------------
(* Properties of the progress log of process_urls (SpecClock).             *)

\* the completions that logged a progress line, by position
Emitting == {k \in 1..Len(progress) : progress[k].printed}

\* the last completion before k that logged a progress line, 0 if none did
PreviousEmission(k) ==
    IF \E j \in Emitting : j < k
    THEN CHOOSE j \in Emitting : j < k /\ \A h \in Emitting : h < k => h <= j
    ELSE 0

\* C20: two consecutive progress lines are at least 5 seconds apart, the
\* first one is logged at least 5 seconds after the start, and a completion
\* less than 5 seconds after the previous progress line logs nothing; every
\* completion so far is accounted for.
C20_ProgressCadence ==
    /\ Len(progress) = completed_count
    /\ \A k \in 1..Len(progress) :
          LET j == PreviousEmission(k) IN
          IF j = 0
          THEN progress[k].printed => progress[k].at - start_time >= 5
          ELSE /\ progress[k].printed => progress[k].at - progress[j].at >= 5
               /\ progress[k].at - progress[j].at < 5 => ~progress[k].printed

\* three completions: the first logged a progress line 5 seconds or more
\* after the start, the second came within 5 seconds of it and logged
\* nothing, the third logged the next line
C20_Witness ==
    /\ Len(progress) = 3
    /\ progress[1].printed
    /\ ~progress[2].printed
    /\ progress[2].at > progress[1].at
    /\ progress[3].printed
    /\ mainpc = "returned"

-----------------------------------------------------------------------------
(* Properties of the output file (SpecRun).                                *)

HasSuffix(s, suffix) ==
    Len(s) >= Len(suffix) /\ SubSeq(s, Len(s) - Len(suffix) + 1, Len(s)) = suffix

\* C21: the file has the header line and then one line per record, in
\* result order (line k + 1 begins with the URL of record k), whose last
\* field is "No Longer Interested" when the record is expired and empty
\* otherwise.
C21_SheetText ==
    csv # <<>> =>
        /\ Len(csv[1]) = Len(results) + 1
        /\ csv[1][1] = "URL, Status, Expired, Reason, Sheet Text\n"
        /\ \A k \in 1..Len(results) :
              LET r == results[k][1]
                  line == csv[1][k + 1]
              IN  /\ HasPrefix(line, r.url \o ", ")
                  /\ IF r.expired
                     THEN HasSuffix(line, ", True, " \o r.reason \o ", No Longer Interested\n")
                     ELSE HasSuffix(line, ", False, " \o r.reason \o ", \n")

\* the file was written for two different records: an expired one that has
\* a status, then a live one
C21_Witness ==
    /\ csv # <<>>
    /\ Len(results) = 2
    /\ results[1][1].expired
    /\ results[1][1].status = 200
    /\ ~results[2][1].expired
    /\ csv[1][3] = "http://a.io/j, 429, False, , \n"

-----------------------------------------------------------------------------
(* Properties of the provider checks of check_url (SpecPage).              *)

\* with content verification, the GET reply for URL i has a status below
\* 400 and a body without keyword, and the URL names the provider
ProviderPage(i, provider) ==
    /\ verify_content
    /\ GotPage(i)
    /\ Names(Requested(i), provider)
    /\ Page(i).status < 400
    /\ MatchedKeywords(Page(i)) = {}

\* some meta tag with property "og:description" has a content that is not blank
HasOgDescription(resp) ==
    \E k \in 1..Len(resp.metas) :
        resp.metas[k].property = "og:description" /\ ~IsBlank(resp.metas[k].content)

\* C22 as stated: a workday page with an og:description meta tag of
\* non-blank content is not expired, and the workday check reports expiry
\* only when no og:description tag has a non-blank content.
C22_AsStated ==
    \A i \in Indices :
        ProviderPage(i, "workday") =>
            /\ HasOgDescription(Page(i)) => ~lastCheck[i][1].expired
            /\ lastCheck[i][1].reason = WorkdayReason => NoOgDescription(Page(i))

\* C22 amended: the tag that counts is the first meta tag with both
\* name "description" and property "og:description".  When its content is
\* not blank and no greenhouse or jobvite check fires for the same URL, the
\* record is live (expired = false, empty reason); when there is no such
\* tag or its content is blank the record is expired, and the workday
\* reason is reported only in that case.
C22_WorkdayMetaPresent ==
    \A i \in Indices :
        ProviderPage(i, "workday") =>
            /\ (/\ DescriptionGiven(Page(i))
                /\ ~GreenhouseFires(Requested(i), Page(i))
                /\ ~JobviteFires(Requested(i), Page(i))) =>
                  lastCheck[i][1] = Record(Requested(i), Page(i).status, FALSE, "")
            /\ ~DescriptionGiven(Page(i)) => lastCheck[i][1].expired
            /\ lastCheck[i][1].reason = WorkdayReason => ~DescriptionGiven(Page(i))

\* a workday page with the description tag was recorded as live
C22_Witness ==
    /\ Len(urls) = 1
    /\ ProviderPage(1, "workday")
    /\ DescriptionGiven(Page(1))
    /\ ~lastCheck[1][1].expired
    /\ lastCheck[1][1].status = 399

\* the reason of the last provider check that fires, in the order workday,
\* greenhouse, jobvite
LastProviderReason(url, resp) ==
    IF JobviteFires(url, resp) THEN "Jobvite page indicates expired job"
    ELSE IF GreenhouseFires(url, resp)
    THEN IF Contains(FinalUrl(url, resp), "?error=true")
         THEN "Greenhouse page indicates expired job"
         ELSE "Greenhouse page redirected"
    ELSE WorkdayReason

\* C23 as stated: when the body contains a keyword, the reason is the
\* keyword reason even if a provider check would fire for the URL.
C23_AsStated ==
    \A i \in Indices :
        (KeywordPage(i) /\ ProviderFires(Requested(i), Page(i))) =>
            Contains(lastCheck[i][1].reason, FirstKeyword(Page(i)))

\* C23 amended: the provider checks are applied whether or not a keyword
\* matched, after the keyword scan: when the body contains a keyword and a
\* provider check fires for the URL, the record is expired and its reason
\* is that of the last provider check that fires, not the keyword reason.
C23_ProviderOverridesKeyword ==
    \A i \in Indices :
        (KeywordPage(i) /\ ProviderFires(Requested(i), Page(i))) =>
            /\ lastCheck[i][1].expired
            /\ lastCheck[i][1].reason = LastProviderReason(Requested(i), Page(i))
            /\ ~Contains(lastCheck[i][1].reason, FirstKeyword(Page(i)))

\* a jobvite URL whose page contains a keyword was redirected to the error
\* page and recorded with the jobvite reason
C23_Witness ==
    /\ Len(urls) = 1
    /\ KeywordPage(1)
    /\ JobviteFires(Requested(1), Page(1))
    /\ lastCheck[1][1].reason = "Jobvite page indicates expired job"

\* C24 as stated: a greenhouse page is expired exactly when the final URL
\* contains "?error=true".
C24_AsStated ==
    \A i \in Indices :
        ProviderPage(i, "greenhouse") =>
            (lastCheck[i][1].expired <=>
                Contains(FinalUrl(Requested(i), Page(i)), "?error=true"))

\* C24 amended: for a greenhouse URL for which no workday or jobvite check
\* fires, the record is expired exactly when the final URL contains
\* "?error=true" (reason "Greenhouse page indicates expired job") or
\* differs from the requested URL (reason "Greenhouse page redirected");
\* without a redirect it is live.
C24_GreenhouseRedirect ==
    \A i \in Indices :
        (/\ ProviderPage(i, "greenhouse")
         /\ ~WorkdayFires(Requested(i), Page(i))
         /\ ~JobviteFires(Requested(i), Page(i))) =>
            LET final == FinalUrl(Requested(i), Page(i)) IN
            lastCheck[i][1] =
                IF Contains(final, "?error=true")
                THEN Record(Requested(i), Page(i).status, TRUE,
                            "Greenhouse page indicates expired job")
                ELSE IF final # Requested(i)
                THEN Record(Requested(i), Page(i).status, TRUE, "Greenhouse page redirected")
                ELSE Record(Requested(i), Page(i).status, FALSE, "")

\* a greenhouse URL was redirected to a listing page and recorded as expired
C24_Witness ==
    /\ Len(urls) = 1
    /\ ProviderPage(1, "greenhouse")
    /\ Page(1).redirect = <<"http://greenhouse.io/all">>
    /\ lastCheck[1][1].expired
    /\ lastCheck[1][1].reason = "Greenhouse page redirected"

-----------------------------------------------------------------------------
(* Properties of the HEAD step and of the retry controller (SpecUrl).      *)

\* the HEAD request of the current attempt was answered with a status in
\* [400, 600) other than 404
HeadError(i) == HeadStatus(i) \in (400..599) \ {404}

\* a GET request is issued only after a HEAD reply with a status outside
\* [400, 600) or a HEAD transport failure
GetOnlyAfterHead(i) ==
    (pc[i] \in {"get", "wait429"} \/ replies[i].get # <<>>) =>
        /\ replies[i].head # <<>>
        /\ IF replies[i].head[1].kind = "response"
           THEN replies[i].head[1].status \notin 400..599
           ELSE replies[i].head[1].cls \in RequestExceptions

\* C25 as stated: after a HEAD reply with a status in [400, 600) other than
\* 404, check_url returns at once with that status, expired = true and the
\* reason "HTTP <status> (HEAD)", without a GET request; and a GET request
\* is issued only after a HEAD status outside [400, 600) or a HEAD
\* transport failure.
C25_AsStated ==
    \A i \in Indices :
        /\ HeadError(i) =>
              /\ pc[i] = "done"
              /\ IsReturned(i)
              /\ Value(i) = Record(Requested(i), HeadStatus(i), TRUE,
                                   "HTTP " \o ToString(HeadStatus(i)) \o " (HEAD)")
              /\ replies[i].get = <<>>
        /\ GetOnlyAfterHead(i)

\* C25 amended: the same with the reason "Error <status> (HEAD)"; the unit
\* of work has then issued one GET fewer than HEADs.
C25_HeadErrorNoGet ==
    \A i \in Indices :
        /\ HeadError(i) =>
              /\ pc[i] = "done"
              /\ IsReturned(i)
              /\ lastCheck[i] = <<Value(i)>>
              /\ Value(i) = Record(Strip(urls[i]), HeadStatus(i), TRUE,
                                   "Error " \o ToString(HeadStatus(i)) \o " (HEAD)")
              /\ replies[i].get = <<>>
              /\ nget[i] = nhead[i] - 1
        /\ GetOnlyAfterHead(i)

\* the third attempt's HEAD request was answered with 599
C25_Witness ==
    /\ Len(urls) = 1
    /\ calls[1] = 3
    /\ HeadStatus(1) = 599
    /\ Value(1).reason = "Error 599 (HEAD)"
    /\ nhead[1] = 3 /\ nget[1] = 2

-----------------------------------------------------------------------------
(* Properties of the result list while process_urls runs (Spec).           *)

\* C26: every slot of the result list is assigned at most once, and only
\* after the unit of work for its own URL has finished, with the outcome of
\* that unit of work; when process_urls returns every slot has been
\* assigned exactly once.
C26_SlotWrittenOnce ==
    \A i \in Indices :
        /\ nwrite[i] <= 1
        /\ nwrite[i] = 0 => results[i] = <<>>
        /\ nwrite[i] = 1 =>
              /\ pc[i] = "done"
              /\ future[i] # <<>>
              /\ results[i] = <<Stored(i)>>
        /\ mainpc = "returned" => nwrite[i] = 1

\* the slots of the second and third URL are assigned while the first URL
\* is still waiting on a 429
C26_Witness ==
    /\ Len(urls) = 3
    /\ mainpc = "collect"
    /\ nwrite = <<0, 1, 1>>
    /\ pc[1] = "wait429"
    /\ results[1] = <<>>
    /\ results[2] # <<>> /\ results[3] # <<>>

\* C27: with delay > 0 the pacing sleep precedes every attempt, the first
\* one included: a sleep that ends is followed at once by the attempt, an
\* attempt begins only out of such a sleep, and outside that moment the
\* unit of work has slept exactly as often as it has called check_url; so a
\* finished unit of work that made k attempts slept k times and none
\* follows its last attempt.
C27_DelayBeforeEachAttempt ==
    /\ [](\A i \in Indices :
             delay > 0 =>
                 /\ ndelay[i] = IF pc[i] = "check" THEN calls[i] + 1 ELSE calls[i]
                 /\ pc[i] = "done" => ndelay[i] = calls[i])
    /\ [][\A i \in Indices :
             delay > 0 =>
                 /\ ndelay'[i] # ndelay[i] => (pc[i] = "delay" /\ pc'[i] = "check")
                 /\ calls'[i] # calls[i] => (pc[i] = "check" /\ ndelay[i] = calls'[i])]_vars

\* with delay 1 and retries 2, a unit of work returned after three attempts
\* and three sleeps, and process_urls returned
C27_Witness ==
    /\ Len(urls) = 1
    /\ delay = 1
    /\ retries = 2
    /\ IsReturned(1)
    /\ calls[1] = 3
    /\ ndelay[1] = 3
    /\ nhead[1] = 3
    /\ mainpc = "returned"

\* C28: with retries >= 0, the unit of work for an empty or whitespace-only
\* URL never issues a request and never raises, and when it returns it has
\* called check_url retries + 1 times (with the pacing sleep before each
\* when delay > 0) and returns the empty-URL record.
C28_EmptyUrlRetried ==
    \A i \in Indices :
        (IsBlank(urls[i]) /\ retries >= 0) =>
            /\ ~IsRaised(i)
            /\ nhead[i] = 0 /\ nget[i] = 0
            /\ calls[i] <= retries + 1
            /\ IsReturned(i) =>
                  /\ calls[i] = retries + 1
                  /\ delay > 0 => ndelay[i] = retries + 1
                  /\ Value(i).url = ""
                  /\ Value(i).status = None
                  /\ <<Value(i)>> = lastCheck[i]

\* with retries 2 and delay 1, process_urls returned the record of a blank
\* URL after three calls and three sleeps
C28_Witness ==
    /\ Len(urls) = 1
    /\ urls[1] = " \t"
    /\ retries = 2
    /\ delay = 1
    /\ calls[1] = 3
    /\ ndelay[1] = 3
    /\ mainpc = "returned"
    /\ results[1][1].reason = "Empty or invalid URL"

\* the GET request of the last attempt failed in transport
GetFailedInTransport(i) == \E cls \in RequestExceptions : GetFailed(i, cls)

\* C29: when the HEAD reply has a status below 400 and the GET request
\* fails in transport, check_url returns a record with the HEAD status and
\* the unit of work returns it without another attempt; and a unit of work
\* is between attempts, or out of attempts, only when neither the HEAD nor
\* the GET request of its last attempt got a reply.
C29_HeadStatusKept ==
    \A i \in Indices :
        /\ (HeadStatus(i) \in 0..399 /\ GetFailedInTransport(i)) =>
              /\ lastCheck[i][1].status = HeadStatus(i)
              /\ pc[i] = "done"
              /\ IsReturned(i)
              /\ <<Value(i)>> = lastCheck[i]
        /\ (pc[i] \in {"loop", "delay", "check"} /\ calls[i] > 0) =>
              /\ HeadStatus(i) = None
              /\ GetStatus(i) = None

\* with retries 2, the first attempt ended with the HEAD status 399 after
\* the GET request timed out, and process_urls returned it
C29_Witness ==
    /\ Len(urls) = 1
    /\ retries = 2
    /\ HeadStatus(1) = 399
    /\ GetFailed(1, "ReadTimeout")
    /\ calls[1] = 1
    /\ mainpc = "returned"
    /\ results[1] = <<Record(Strip(urls[1]), 399, FALSE, "Read Timeout (uncertain status)")>>

-----------------------------------------------------------------------------
(* Termination of process_urls under fair scheduling (FairRun).            *)

\* C30: when the main thread and the pool threads keep being scheduled and
\* every request, 429 wait and pacing sleep ends, process_urls eventually
\* returns, for every list of the model, retries >= 0 and max_workers >= 1.
C30_Terminates == <>(mainpc = "returned")

\* with a single pool thread, process_urls returned a list of two after
\* one URL was retried and the other waited on a 429
C30_Witness ==
    /\ mainpc = "returned"
    /\ Len(urls) = 2
    /\ max_workers = 1
    /\ retries = 1
    /\ calls[1] = 2
    /\ slept[2] > 0

====
